---- MODULE Spec2Model ----
(***************************************************************************)
(* Canvas-Flow: the hierarchical layout engine                             *)
(* (services/layoutService.ts, calculateHierarchicalLayout).               *)
(*                                                                         *)
(* Node ids are the strings crypto.randomUUID() returns: they are compared *)
(* for equality only, they are never array-index-like property keys and    *)
(* never names inherited from Object.prototype.  The k-th element created  *)
(* on the canvas carries the k-th fresh id, NodeIds[k].  Ghost is the id   *)
(* of an element that is no longer on the canvas: a connection or a        *)
(* parentId may still mention it.                                          *)
(*                                                                         *)
(* A JavaScript object with string keys is modelled as the sequence of     *)
(* its [key, value] entries in insertion order (the order Object.entries   *)
(* yields for keys that are not array indices); an object with number keys *)
(* is modelled the same way and enumerated in ascending key order, as      *)
(* OrdinaryOwnPropertyKeys does for array-index keys.                      *)
(***************************************************************************)
EXTENDS Integers, Sequences, FiniteSets

\* ------------------------------------------------------------------ bounds
\* the canvas holds at most MaxSize elements and connections together
MaxSize == 5
\* render() is called at most MaxRenders times
MaxRenders == 3

\* ------------------------------------------------------------------ ids
NodeIds == <<"u1", "u2", "u3", "u4", "u5", "u6", "u7", "u8">>
Ghost == "gone"
NoParent == "undefined"

\* ------------------------------------------------------------------ layout constants
CARD_WIDTH == 750
CARD_HEIGHT == 600
VERTICAL_GAP == 100
HORIZONTAL_GAP == 200

\* where new elements are created: x: 100 + i * 650, y: 100
NEW_X == 100
NEW_X_STEP == 650
NEW_Y == 100

VARIABLES
    elements,      \* CanvasElement[]: <<[id, parentId, x, y]>>, in creation order
    connections,   \* Connection[]: <<[fromId, toId]>>
    pc,            \* "edit": the canvas is being built; "done": the layout was computed
    roots,         \* calculateHierarchicalLayout's local `roots`
    queue,         \* its local `queue` (entries are never removed: `head` walks along it)
    head,          \* its local `head`
    visited,       \* its local `visited`
    levels,        \* its local `levels`
    newPositions,  \* the value calculateHierarchicalLayout returned
    cache,         \* DiagramRenderManager.cache: Map<string, string>, <<[key, svg]>> in insertion order
    isInitialized, \* DiagramRenderManager.isInitialized
    renderQueue,   \* DiagramRenderManager.renderQueue: the queued tasks, each named by its request
    isProcessing,  \* DiagramRenderManager.isProcessing
    promises,      \* the promise render() returned for each request, in call order
    loops,         \* the processQueue() calls that went past the guard and have not returned
    history,       \* what has happened so far: [initialized, completed, cleared] (see RenderInit)
    appProcessing, \* App's `isProcessing` state (the render manager's field has that name here)
    globalAbortControllerRef, \* 0 for null, else r: the AbortController made by request r
    messages,      \* App's `messages` state: <<[role, content, type, plan]>>
    requests,      \* the AI service calls made so far, each with its handler's locals
    uuids,         \* how many element ids crypto.randomUUID() has handed out
    appHistory,    \* App's `history` state, the undo stack: <<[elements, connections]>>
    future,        \* App's `future` state, the redo stack
    mounted,       \* SmartDiagram: "no" before it is mounted, "yes", "gone" after unmounting
    props,         \* SmartDiagram's props: [id, code, themeVars, isVisible]
    version,       \* how many times the props were set
    svgContent,    \* SmartDiagram's `svgContent` state (NoValue for null)
    error,         \* SmartDiagram's `error` state (NoError for null)
    isLoading,     \* SmartDiagram's `isLoading` state
    effects,       \* the runs of the render effect that called executeRender()
    container      \* the div.mermaid-render-output: [present, innerHTML]

layoutVars == <<elements, connections, pc, roots, queue, head, visited, levels, newPositions>>
renderVars == <<cache, isInitialized, renderQueue, isProcessing, promises, loops, history>>
appVars == <<appProcessing, globalAbortControllerRef, messages, requests, uuids, appHistory, future>>
diagramVars == <<mounted, props, version, svgContent, error, isLoading, effects, container>>
vars == <<layoutVars, renderVars, appVars, diagramVars>>

\* ------------------------------------------------------------------ JS objects
\* key in obj (own property)
Has(obj, k) == \E i \in DOMAIN obj : obj[i].key = k

\* obj[k], for an own property k
Get(obj, k) == obj[CHOOSE i \in DOMAIN obj : obj[i].key = k].value

\* obj[k] = v: an existing key keeps its position, a new key is appended
Put(obj, k, v) ==
    IF Has(obj, k)
    THEN [i \in DOMAIN obj |-> IF obj[i].key = k THEN [key |-> k, value |-> v] ELSE obj[i]]
    ELSE Append(obj, [key |-> k, value |-> v])

\* the entries of an object whose keys are array indices, ascending by key
RECURSIVE IndexEntries(_)
IndexEntries(obj) ==
    IF obj = <<>> THEN <<>>
    ELSE LET m == CHOOSE i \in DOMAIN obj : \A j \in DOMAIN obj : obj[i].key <= obj[j].key
             rest == SelectSeq(obj, LAMBDA e : e.key # obj[m].key)
         IN  <<obj[m]>> \o IndexEntries(rest)

\* String(n) for a non-negative integer: its decimal digits, most significant first
RECURSIVE NumberToString(_)
NumberToString(n) == IF n < 10 THEN <<n>> ELSE Append(NumberToString(n \div 10), n % 10)

\* parseInt(s) for a string of decimal digits
RECURSIVE parseInt(_)
parseInt(s) ==
    IF Len(s) = 0 THEN 0
    ELSE 10 * parseInt(SubSeq(s, 1, Len(s) - 1)) + s[Len(s)]

\* ------------------------------------------------------------------ step 1: adjacency, in-degree
\* elements.forEach(el => { adj[el.id] = []; inDegree[el.id] = 0; })
RECURSIVE InitAdj(_, _)
InitAdj(els, g) ==
    IF els = <<>> THEN g
    ELSE InitAdj(Tail(els),
                 [adj |-> Put(g.adj, Head(els).id, <<>>),
                  inDegree |-> Put(g.inDegree, Head(els).id, 0)])

\* faulty variant: only the source of a connection is looked up
AddConnSourceOnly(g, conn) ==
    IF Has(g.adj, conn.fromId)
    THEN [adj |-> Put(g.adj, conn.fromId, Append(Get(g.adj, conn.fromId), conn.toId)),
          inDegree |-> Put(g.inDegree, conn.toId,
                           (IF Has(g.inDegree, conn.toId) THEN Get(g.inDegree, conn.toId) ELSE 0) + 1)]
    ELSE g

\* the body of connections.forEach: an edge counts when adj has both endpoints
AddConn(g, conn) ==
    IF Has(g.adj, conn.fromId) /\ Has(g.adj, conn.toId)
    THEN [adj |-> Put(g.adj, conn.fromId, Append(Get(g.adj, conn.fromId), conn.toId)),
          inDegree |-> Put(g.inDegree, conn.toId, Get(g.inDegree, conn.toId) + 1)]
    ELSE g

RECURSIVE AddConns(_, _)
AddConns(conns, g) ==
    IF conns = <<>> THEN g ELSE AddConns(Tail(conns), AddConn(g, Head(conns)))

BuildGraph(els, conns) ==
    AddConns(conns, InitAdj(els, [adj |-> <<>>, inDegree |-> <<>>]))

\* ------------------------------------------------------------------ step 2: roots
\* faulty variant: parentId is not looked at
IsPureRootIgnoringParent(el, inDegree) == Get(inDegree, el.id) = 0

\* !el.parentId && inDegree[el.id] === 0
IsPureRoot(el, inDegree) == el.parentId = NoParent /\ Get(inDegree, el.id) = 0

Roots(els, inDegree) ==
    LET pure == SelectSeq(els, LAMBDA el : IsPureRoot(el, inDegree))
    IN  IF Len(pure) = 0 /\ Len(els) > 0 THEN <<els[1]>> ELSE pure

\* ------------------------------------------------------------------ step 3: BFS
\* faulty variant: a child is queued with its parent's level
VisitChildSameLevel(st, childId, level) ==
    IF childId \notin st.visited
    THEN [st EXCEPT !.visited = @ \cup {childId},
                    !.queue = Append(@, [id |-> childId, level |-> level])]
    ELSE st

\* faulty variant: an element counts as visited only once it was dequeued
VisitChildMarkedAtDequeue(st, childId, level) ==
    IF ~Has(st.levels, childId)
    THEN [st EXCEPT !.visited = @ \cup {childId},
                    !.queue = Append(@, [id |-> childId, level |-> level + 1])]
    ELSE st

\* faulty variant: the number of elements dequeued so far is taken for the depth
VisitChildLevelFromHead(st, childId, level) ==
    IF childId \notin st.visited
    THEN [st EXCEPT !.visited = @ \cup {childId},
                    !.queue = Append(@, [id |-> childId, level |-> st.head])]
    ELSE st

\* if (!visited.has(childId)) { visited.add(childId); queue.push({ id: childId, level: level + 1 }) }
VisitChild(st, childId, level) ==
    IF childId \notin st.visited
    THEN [st EXCEPT !.visited = @ \cup {childId},
                    !.queue = Append(@, [id |-> childId, level |-> level + 1])]
    ELSE st

\* faulty variant: the children are visited from the last edge to the first
RECURSIVE VisitChildrenReversed(_, _, _)
VisitChildrenReversed(children, level, st) ==
    IF children = <<>> THEN st
    ELSE VisitChildrenReversed(SubSeq(children, 1, Len(children) - 1), level,
                               VisitChild(st, children[Len(children)], level))

\* (adj[id] || []).forEach(childId => ...)
RECURSIVE VisitChildren(_, _, _)
VisitChildren(children, level, st) ==
    IF children = <<>> THEN st
    ELSE VisitChildren(Tail(children), level, VisitChild(st, Head(children), level))

\* one iteration of the loop: const { id, level } = queue[head++]; levels[id] = level; ...
BfsIter(adj, st) ==
    LET q == st.queue[st.head + 1]
        st1 == [st EXCEPT !.head = @ + 1,
                          !.levels = Put(@, q.id, q.level)]
    IN  VisitChildren(IF Has(adj, q.id) THEN Get(adj, q.id) ELSE <<>>, q.level, st1)

\* while (head < queue.length) { ... }
RECURSIVE BfsLoop(_, _)
BfsLoop(adj, st) ==
    IF st.head < Len(st.queue) THEN BfsLoop(adj, BfsIter(adj, st)) ELSE st

\* the locals before the loop: the roots are queued at level 0 and marked visited
BfsStart(rts) ==
    [queue |-> [i \in DOMAIN rts |-> [id |-> rts[i].id, level |-> 0]],
     visited |-> {rts[i].id : i \in DOMAIN rts},
     head |-> 0,
     levels |-> <<>>]

Bfs(adj, rts) == BfsLoop(adj, BfsStart(rts))

\* faulty variant: an unreached element gets no level
HandleOrphanSkip(lv, el) == lv

\* faulty variant: an unreached element keeps the column it is drawn in
HandleOrphanKeepsColumn(lv, el) ==
    IF ~Has(lv, el.id) THEN Put(lv, el.id, el.x \div (CARD_WIDTH + HORIZONTAL_GAP)) ELSE lv

\* if (levels[el.id] === undefined) levels[el.id] = 0
HandleOrphan(lv, el) == IF ~Has(lv, el.id) THEN Put(lv, el.id, 0) ELSE lv

\* elements.forEach(el => ...)
RECURSIVE HandleOrphans(_, _)
HandleOrphans(els, lv) ==
    IF els = <<>> THEN lv ELSE HandleOrphans(Tail(els), HandleOrphan(lv, Head(els)))

\* ------------------------------------------------------------------ step 4: grouping, coordinates
\* faulty variant: the bucket is replaced by the new id instead of extended
PushToGroupOverwrite(groups, level, id) == Put(groups, level, <<id>>)

\* if (!levelGroups[level]) levelGroups[level] = []; levelGroups[level].push(id)
PushToGroup(groups, level, id) ==
    LET g1 == IF ~Has(groups, level) THEN Put(groups, level, <<>>) ELSE groups
    IN  Put(g1, level, Append(Get(g1, level), id))

\* Object.entries(levels).forEach(([id, level]) => ...)
RECURSIVE GroupByLevel(_, _)
GroupByLevel(lv, groups) ==
    IF lv = <<>> THEN groups
    ELSE GroupByLevel(Tail(lv), PushToGroup(groups, Head(lv).value, Head(lv).key))

\* faulty variants of the placement of one column
\* the column starts at y = 0 instead of being centred
PlaceColumnNoCentering(levelStr, ids) ==
    [index \in DOMAIN ids |->
        [id |-> ids[index], x |-> parseInt(levelStr) * (CARD_WIDTH + HORIZONTAL_GAP),
         y |-> (index - 1) * (CARD_HEIGHT + VERTICAL_GAP)]]

\* the cards are stacked without the vertical gap
PlaceColumnNoGap(levelStr, ids) ==
    LET totalHeight == Len(ids) * CARD_HEIGHT + (Len(ids) - 1) * VERTICAL_GAP
    IN  [index \in DOMAIN ids |->
            [id |-> ids[index], x |-> parseInt(levelStr) * (CARD_WIDTH + HORIZONTAL_GAP),
             y |-> -(totalHeight \div 2) + (index - 1) * CARD_HEIGHT]]

\* the columns are spaced without the horizontal gap
PlaceColumnNarrow(levelStr, ids) ==
    LET totalHeight == Len(ids) * CARD_HEIGHT + (Len(ids) - 1) * VERTICAL_GAP
    IN  [index \in DOMAIN ids |->
            [id |-> ids[index], x |-> parseInt(levelStr) * CARD_WIDTH,
             y |-> -(totalHeight \div 2) + (index - 1) * (CARD_HEIGHT + VERTICAL_GAP)]]

\* every card of a column gets the column's start y
PlaceColumnSameY(levelStr, ids) ==
    LET totalHeight == Len(ids) * CARD_HEIGHT + (Len(ids) - 1) * VERTICAL_GAP
    IN  [index \in DOMAIN ids |->
            [id |-> ids[index], x |-> parseInt(levelStr) * (CARD_WIDTH + HORIZONTAL_GAP),
             y |-> -(totalHeight \div 2)]]

\* ids.forEach((id, index) => newPositions.push({ id, x, y }))
PlaceColumn(levelStr, ids) ==
    LET level == parseInt(levelStr)
        x == level * (CARD_WIDTH + HORIZONTAL_GAP)
        totalHeight == Len(ids) * CARD_HEIGHT + (Len(ids) - 1) * VERTICAL_GAP
        \* totalHeight = 700 * count - 100 is even: the division is exact
        startY == -(totalHeight \div 2)
    IN  [index \in DOMAIN ids |->
            [id |-> ids[index], x |-> x,
             y |-> startY + (index - 1) * (CARD_HEIGHT + VERTICAL_GAP)]]

RECURSIVE PlaceAll(_)
PlaceAll(entries) ==
    IF entries = <<>> THEN <<>>
    ELSE PlaceColumn(NumberToString(Head(entries).key), Head(entries).value)
             \o PlaceAll(Tail(entries))

Place(lv) == PlaceAll(IndexEntries(GroupByLevel(lv, <<>>)))

\* the locals and the returned array, at the function's return
LayoutLocals(els, conns) ==
    IF Len(els) = 0
    THEN [roots |-> <<>>, queue |-> <<>>, head |-> 0, visited |-> {},
          levels |-> <<>>, newPositions |-> <<>>]
    ELSE LET g == BuildGraph(els, conns)
             rts == Roots(els, g.inDegree)
             st == Bfs(g.adj, rts)
             lv == HandleOrphans(els, st.levels)
         IN  [roots |-> rts, queue |-> st.queue, head |-> st.head, visited |-> st.visited,
              levels |-> lv, newPositions |-> Place(lv)]

calculateHierarchicalLayout(els, conns) == LayoutLocals(els, conns).newPositions

\* ------------------------------------------------------------------ the canvas
ElementIds == {elements[i].id : i \in DOMAIN elements}

\* an endpoint of a new connection: an element on the canvas, or one that is gone
EndpointIds == ElementIds \cup {Ghost}

LayoutInit ==
    /\ elements = <<>>
    /\ connections = <<>>
    /\ pc = "edit"
    /\ roots = <<>>
    /\ queue = <<>>
    /\ head = 0
    /\ visited = {}
    /\ levels = <<>>
    /\ newPositions = <<>>

\* private cache = new Map(); isInitialized = false; renderQueue = []; isProcessing = false.
\* history.initialized: the mermaid.initialize calls that succeeded, as [req, themeVariables];
\* history.completed: the latest successful render of each (code, themeVars) since the
\* last clearCache(), as [code, themeVars, svg];
\* history.cleared: clearCache() has been called
RenderInit ==
    /\ cache = <<>>
    /\ isInitialized = FALSE
    /\ renderQueue = <<>>
    /\ isProcessing = FALSE
    /\ promises = <<>>
    /\ loops = <<>>
    /\ history = [initialized |-> <<>>, completed |-> {}, cleared |-> FALSE]

\* useState([]) for messages, history and future, useState(false) for
\* isProcessing, useRef(null) for the abort controller
AppInit ==
    /\ appProcessing = FALSE
    /\ globalAbortControllerRef = 0
    /\ messages = <<>>
    /\ requests = <<>>
    /\ uuids = 0
    /\ appHistory = <<>>
    /\ future = <<>>

\* no error: useState<string | null>(null)
NoError == "null"

\* a diagram component before it is mounted: useState(null), useState(null),
\* useState(false); the props are those of the first render
DiagramInit ==
    /\ mounted = "no"
    /\ props = [id |-> <<>>, code |-> "", themeVars |-> [defined |-> FALSE, entries |-> <<>>],
                isVisible |-> FALSE]
    /\ version = 0
    /\ svgContent = [code |-> "", chartId |-> <<>>, error |-> ""]
    /\ error = NoError
    /\ isLoading = FALSE
    /\ effects = <<>>
    /\ container = [present |-> FALSE, innerHTML |-> [code |-> "", chartId |-> <<>>, error |-> ""]]

\* the application after loading: an empty canvas, a fresh render manager
Init == LayoutInit /\ RenderInit /\ AppInit /\ DiagramInit

\* a new element with a fresh id; a drill-down child carries its parent's id.
\* The k-th element is created at x = 100 + (k - 1) * 650, y = 100.
AddElement(parentId) ==
    /\ pc = "edit"
    /\ Len(elements) + Len(connections) < MaxSize
    /\ elements' = Append(elements, [id |-> NodeIds[Len(elements) + 1], parentId |-> parentId,
                                     x |-> NEW_X + Len(elements) * NEW_X_STEP, y |-> NEW_Y])
    /\ UNCHANGED <<connections, pc, roots, queue, head, visited, levels, newPositions>>
    /\ UNCHANGED <<renderVars, appVars, diagramVars>>

AddConnection(fromId, toId) ==
    /\ pc = "edit"
    /\ Len(elements) + Len(connections) < MaxSize
    /\ connections' = Append(connections, [fromId |-> fromId, toId |-> toId])
    /\ UNCHANGED <<elements, pc, roots, queue, head, visited, levels, newPositions>>
    /\ UNCHANGED <<renderVars, appVars, diagramVars>>

\* one call of calculateHierarchicalLayout(elements, connections)
Layout ==
    /\ pc = "edit"
    /\ pc' = "done"
    /\ roots' = LayoutLocals(elements, connections).roots
    /\ queue' = LayoutLocals(elements, connections).queue
    /\ head' = LayoutLocals(elements, connections).head
    /\ visited' = LayoutLocals(elements, connections).visited
    /\ levels' = LayoutLocals(elements, connections).levels
    /\ newPositions' = calculateHierarchicalLayout(elements, connections)
    /\ UNCHANGED <<elements, connections>>
    /\ UNCHANGED <<renderVars, appVars, diagramVars>>

LayoutNext ==
    \/ \E p \in {NoParent, Ghost} : AddElement(p)
    \/ \E f \in EndpointIds, t \in EndpointIds : AddConnection(f, t)
    \/ Layout

LayoutSpec == Init /\ [][LayoutNext]_vars

\* ------------------------------------------------------------------ the traversal, step by step
\* The same call, one loop iteration at a time: pc = "bfs" while the
\* while-loop of calculateHierarchicalLayout runs.
TraversalStart ==
    /\ pc = "edit"
    /\ IF Len(elements) = 0
       THEN /\ pc' = "done"
            /\ UNCHANGED <<roots, queue, head, visited, levels, newPositions>>
       ELSE LET rts == Roots(elements, BuildGraph(elements, connections).inDegree)
                st == BfsStart(rts)
            IN  /\ pc' = "bfs"
                /\ roots' = rts
                /\ queue' = st.queue
                /\ head' = st.head
                /\ visited' = st.visited
                /\ levels' = st.levels
                /\ UNCHANGED newPositions
    /\ UNCHANGED <<elements, connections>>
    /\ UNCHANGED <<renderVars, appVars, diagramVars>>

TraversalStep ==
    /\ pc = "bfs"
    /\ head < Len(queue)
    /\ LET st == BfsIter(BuildGraph(elements, connections).adj,
                         [queue |-> queue, visited |-> visited, head |-> head, levels |-> levels])
       IN  /\ queue' = st.queue
           /\ head' = st.head
           /\ visited' = st.visited
           /\ levels' = st.levels
    /\ UNCHANGED <<elements, connections, pc, roots, newPositions>>
    /\ UNCHANGED <<renderVars, appVars, diagramVars>>

TraversalFinish ==
    /\ pc = "bfs"
    /\ ~(head < Len(queue))
    /\ pc' = "done"
    /\ levels' = HandleOrphans(elements, levels)
    /\ newPositions' = Place(HandleOrphans(elements, levels))
    /\ UNCHANGED <<elements, connections, roots, queue, head, visited>>
    /\ UNCHANGED <<renderVars, appVars, diagramVars>>

TraversalNext ==
    \/ \E p \in {NoParent, Ghost} : AddElement(p)
    \/ \E f \in EndpointIds, t \in EndpointIds : AddConnection(f, t)
    \/ TraversalStart
    \/ TraversalStep
    \/ TraversalFinish

\* ENABLED <<TraversalStep>>_vars and ENABLED <<TraversalFinish>>_vars,
\* written out: a step advances head, the finish changes pc
TraversalStepEnabled == pc = "bfs" /\ head < Len(queue)
TraversalFinishEnabled == pc = "bfs" /\ ~(head < Len(queue))

\* The function is synchronous code: once called it keeps running.  This is
\* WF_vars(TraversalStep) /\ WF_vars(TraversalFinish) with the
\* two ENABLED predicates replaced by the guards above.
TraversalSpec ==
    /\ Init
    /\ [][TraversalNext]_vars
    /\ ([]<>(~TraversalStepEnabled) \/ []<><<TraversalStep>>_vars)
    /\ ([]<>(~TraversalFinishEnabled) \/ []<><<TraversalFinish>>_vars)

\* ------------------------------------------------------------------ the application: values
\* at most MaxRequests AI service calls are started
MaxRequests == 3
\* /layout and /note are taken while fewer than MaxMessages messages are posted
MaxMessages == 2
\* /clear is taken at most MaxClears times
MaxClears == 20

\* prev.slice(-19): the newest 19 snapshots are kept below the new one
HISTORY_KEEP == 19

\* the view is not moved: offset = {x: 0, y: 0}, scale = 1, so a note or an
\* imported image lands at x: -offset.x/scale + 200, y: -offset.y/scale + 200
NOTE_X == 200
NOTE_Y == 200
\* executeGeneration: x: 100 + (node.level - 1) * 600, y: 100 + newElements.length * 350
GEN_X == 100
GEN_X_STEP == 600
GEN_Y == 100
GEN_Y_STEP == 350

\* the contents of the messages the handlers post
UserInput == "user input"
StoppedText == "task stopped on request"
PlanText == "planned modules"
PlanFailedText == "planning failed"
DeployedText == "modules deployed"
GenerationFailedText == "generation interrupted"
ReportText == "review report"
VisionText == "image restored as module"
VisionFailedText == "image parsing failed"
NoteText == "note deployed"
LayoutText == "layout optimised"
ResetText == "canvas reset"

\* what classifyContentAgent may answer: the levels of rawPlan.nodes
RawPlans == {<<1>>, <<1, 2>>}

\* crypto.randomUUID(), called for the k-th time
randomUUID(k) == NodeIds[k]

\* s.slice(-n) for n > 0
SliceLast(s, n) == IF Len(s) > n THEN SubSeq(s, Len(s) - n + 1, Len(s)) ELSE s

\* setMessages(prev => [...prev, {id, role, content, agent, timestamp, type, plan}])
addMessage(msgs, role, content, type, plan) ==
    Append(msgs, [role |-> role, content |-> content, type |-> type, plan |-> plan])

\* how many of the posted messages say `content`
Posted(content) == Cardinality({m \in DOMAIN messages : messages[m].content = content})

\* setHistory(prev => [...prev.slice(-19), {elements: [...elements], connections: [...connections]}])
pushToHistoryKeepsAll(h, els, conns) ==
    Append(h, [elements |-> els, connections |-> conns])

pushToHistory(h, els, conns) ==
    Append(SliceLast(h, HISTORY_KEEP), [elements |-> els, connections |-> conns])

\* rawPlan.nodes.map(n => ({...n, id: crypto.randomUUID(), selected: true}))
PlanNodes(rawPlan, used) ==
    [k \in DOMAIN rawPlan |-> [id |-> randomUUID(used + k), level |-> rawPlan[k], selected |-> TRUE]]

\* plan.filter(p => p.selected)
RECURSIVE SelectedNodes(_)
SelectedNodes(plan) ==
    IF plan = <<>> THEN <<>>
    ELSE IF Head(plan).selected THEN <<Head(plan)>> \o SelectedNodes(Tail(plan))
         ELSE SelectedNodes(Tail(plan))

\* prev.filter(i => i.id !== id)
RECURSIVE WithoutId(_, _)
WithoutId(els, id) ==
    IF els = <<>> THEN <<>>
    ELSE IF Head(els).id # id THEN <<Head(els)>> \o WithoutId(Tail(els), id)
         ELSE WithoutId(Tail(els), id)

\* the element executeGeneration pushes for `node` when newElements holds n elements
GeneratedElement(node, n) ==
    [id |-> node.id, parentId |-> NoParent,
     x |-> GEN_X + (node.level - 1) * GEN_X_STEP, y |-> GEN_Y + n * GEN_Y_STEP]

\* a request: the call of an AI service and the locals of the handler that
\* awaits it.  kind: which service; pc: "await" while the call is out,
\* "returned" when the handler has run to its end, "rejected" when an
\* exception left the handler; failed: the service threw or rejected;
\* aborted: controller.signal.aborted;
\* nodes, next, newElements: executeGeneration's selectedNodes, the index of
\* the node being drawn, and newElements; seen: the elements and connections
\* of the render the handler was created in
Request(kind, nodes, els, conns) ==
    [kind |-> kind, pc |-> "await", failed |-> FALSE, aborted |-> FALSE, nodes |-> nodes, next |-> 1,
     newElements |-> <<>>, seen |-> [elements |-> els, connections |-> conns]]

Awaiting(r, kind) ==
    /\ r \in DOMAIN requests
    /\ requests[r].kind = kind
    /\ requests[r].pc = "await"

\* what no handler of the application touches: the layout's locals, the render manager
appFrame == <<pc, roots, queue, head, visited, levels, newPositions, renderVars, diagramVars>>

\* ------------------------------------------------------------------ the /layout command
\* where a dragged element is dropped
DragPosition == [x |-> 2 * (CARD_WIDTH + HORIZONTAL_GAP) + NEW_X, y |-> NEW_Y - CARD_HEIGHT]

\* onMouseMove while dragging: the element's x and y change
DragElement(i) ==
    /\ pc = "edit"
    /\ elements[i].x # DragPosition.x
    /\ elements' = [elements EXCEPT ![i].x = DragPosition.x, ![i].y = DragPosition.y]
    /\ UNCHANGED <<connections, pc, roots, queue, head, visited, levels, newPositions>>
    /\ UNCHANGED <<renderVars, appVars, diagramVars>>

\* faulty variant: the elements are rebuilt from the result, in the result's order
ApplyPositionsInLayoutOrder(els, pos) ==
    [k \in DOMAIN pos |->
        LET el == els[CHOOSE i \in DOMAIN els : els[i].id = pos[k].id]
        IN  [el EXCEPT !.x = pos[k].x, !.y = pos[k].y]]

\* prev.map(el => { const p = pos.find(p => p.id === el.id); return p ? {...el, x: p.x, y: p.y} : el })
ApplyPositions(els, pos) ==
    [i \in DOMAIN els |->
        IF \E k \in DOMAIN pos : pos[k].id = els[i].id
        THEN LET p == pos[CHOOSE k \in DOMAIN pos :
                            /\ pos[k].id = els[i].id
                            /\ \A j \in 1..(k - 1) : pos[j].id # els[i].id]
             IN  [els[i] EXCEPT !.x = p.x, !.y = p.y]
        ELSE els[i]]

\* handleCommand, case 'layout': a history snapshot is taken, the positions
\* computed for the current elements and connections are written into the
\* elements, and a message is posted
LayoutCommand ==
    /\ pc \in {"edit", "done"}
    /\ Len(messages) < MaxMessages
    /\ appHistory' = pushToHistory(appHistory, elements, connections)
    /\ future' = <<>>
    /\ messages' = addMessage(messages, "assistant", LayoutText, "text", <<>>)
    /\ LET r == LayoutLocals(elements, connections)
       IN  /\ roots' = r.roots
           /\ queue' = r.queue
           /\ head' = r.head
           /\ visited' = r.visited
           /\ levels' = r.levels
           /\ newPositions' = r.newPositions
           /\ elements' = ApplyPositions(elements, r.newPositions)
    /\ pc' = "done"
    /\ UNCHANGED connections
    /\ UNCHANGED <<appProcessing, globalAbortControllerRef, requests, uuids>>
    /\ UNCHANGED <<renderVars, diagramVars>>

CanvasNext ==
    \/ \E p \in {NoParent, Ghost} : AddElement(p)
    \/ \E f \in EndpointIds, t \in EndpointIds : AddConnection(f, t)
    \/ \E i \in DOMAIN elements : DragElement(i)
    \/ LayoutCommand

CanvasSpec == Init /\ [][CanvasNext]_vars

\* ------------------------------------------------------------------ the render manager: values
\* render(id, code, themeVars): ids and chart ids are sequences of characters
RenderIds == {<<"a", "1">>, <<"b", "-", "2">>}
Codes == {"graph TD; A-->B", "pie"}

\* themeVars is undefined or an object, given by its entries
Undefined == [defined |-> FALSE, entries |-> <<>>]
Dark == [defined |-> TRUE, entries |-> << <<"primaryColor", "#000">> >>]
ThemeVarsValues == {Undefined, Dark}

\* the characters [a-zA-Z0-9] among those of RenderIds
AlphaNumeric == {"a", "b", "1", "2"}

\* Math.random().toString(36).slice(2, 7): the five characters drawn.  Nothing
\* in the manager reads a chart id again, so one draw stands for all of them.
RandomSuffixes == {<<"k", "3", "x", "9", "q">>}

\* themeVars || { primaryColor: '#6366f1', primaryTextColor: '#fff', lineColor: '#818cf8' }
DefaultThemeVariables ==
    << <<"primaryColor", "#6366f1">>, <<"primaryTextColor", "#fff">>, <<"lineColor", "#818cf8">> >>
ThemeVariables(themeVars) ==
    IF themeVars.defined THEN themeVars.entries ELSE DefaultThemeVariables

\* JSON.stringify of the entries of an object whose values are strings
RECURSIVE StringifyEntries(_)
StringifyEntries(es) ==
    IF es = <<>> THEN ""
    ELSE "\"" \o es[1][1] \o "\":\"" \o es[1][2] \o "\""
         \o (IF Len(es) > 1 THEN "," ELSE "") \o StringifyEntries(Tail(es))

\* `${JSON.stringify(themeVars)}`: JSON.stringify(undefined) is undefined
JSONstringify(themeVars) ==
    IF themeVars.defined THEN "{" \o StringifyEntries(themeVars.entries) \o "}" ELSE "undefined"

\* faulty variant: the key also names the element
cacheKeyPerId(id, code, themeVars) ==
    code \o "-" \o JSONstringify(themeVars) \o "-" \o id[1]

\* const cacheKey = `${code}-${JSON.stringify(themeVars)}`
cacheKey(id, code, themeVars) == code \o "-" \o JSONstringify(themeVars)

\* `svg-${id.replace(/[^a-zA-Z0-9]/g, '')}-${Math.random().toString(36).slice(2, 7)}`
ChartId(id, rnd) ==
    <<"s", "v", "g", "-">> \o SelectSeq(id, LAMBDA c : c \in AlphaNumeric) \o <<"-">> \o rnd

\* what a promise holds: nothing yet, an svg, or an error
NoValue == [code |-> "", chartId |-> <<>>, error |-> ""]
Svg(chartId, code) == [code |-> code, chartId |-> chartId, error |-> ""]
Error(what) == [code |-> "", chartId |-> <<>>, error |-> what]

\* this.cache.has(cacheKey), this.cache.get(cacheKey), this.cache.set(cacheKey, svg), this.cache.clear()
CacheHas(c, key) == \E i \in DOMAIN c : c[i].key = key
CacheGet(c, key) == c[CHOOSE i \in DOMAIN c : c[i].key = key].svg
CacheSet(c, key, svg) ==
    IF CacheHas(c, key)
    THEN [i \in DOMAIN c |-> IF c[i].key = key THEN [key |-> key, svg |-> svg] ELSE c[i]]
    ELSE Append(c, [key |-> key, svg |-> svg])

\* faulty variant: a rejection reaches every promise that is pending
SettleEveryPending(ps, req, state, value) ==
    [r \in DOMAIN ps |->
        IF ps[r].state = "pending" /\ (r = req \/ state = "rejected")
        THEN [ps[r] EXCEPT !.state = state, !.value = value, !.settles = @ + 1]
        ELSE ps[r]]

\* resolve(svg) and reject(err): the first call settles the promise, `settles` counts the calls
Settle(ps, req, state, value) ==
    [ps EXCEPT ![req] = IF @.state = "pending"
                        THEN [@ EXCEPT !.state = state, !.value = value, !.settles = @ + 1]
                        ELSE [@ EXCEPT !.settles = @ + 1]]

\* ------------------------------------------------------------------ the render manager: code
\* faulty variant: mermaid.initialize is called by every task
initializeEveryTime(inited, themeVars, throws) ==
    LET config == ThemeVariables(themeVars)
    IN  IF throws
        THEN [isInitialized |-> inited, called |-> TRUE, threw |-> TRUE, themeVariables |-> config]
        ELSE [isInitialized |-> TRUE, called |-> TRUE, threw |-> FALSE, themeVariables |-> config]

\* initialize(themeVars): if (this.isInitialized) return; mermaid.initialize({...});
\* this.isInitialized = true.  mermaid.initialize may throw (`throws`).
initialize(inited, themeVars, throws) ==
    LET config == ThemeVariables(themeVars)
    IN  IF inited
        THEN [isInitialized |-> TRUE, called |-> FALSE, threw |-> FALSE, themeVariables |-> config]
        ELSE IF throws
             THEN [isInitialized |-> FALSE, called |-> TRUE, threw |-> TRUE,
                   themeVariables |-> config]
             ELSE [isInitialized |-> TRUE, called |-> TRUE, threw |-> FALSE,
                   themeVariables |-> config]

\* faulty variant: the newest task is taken
pop(q) == [task |-> q[Len(q)], rest |-> SubSeq(q, 1, Len(q) - 1)]

\* this.renderQueue.shift()
shift(q) == [task |-> Head(q), rest |-> Tail(q)]

\* faulty variant: an exception of the task's body escapes the task
TaskEndsUncaught(loop, failed) ==
    [loop EXCEPT !.pc = IF failed THEN "threw" ELSE "awaitTask"]

\* try { ... resolve(svg) } catch (err) { reject(err) }: the task returns normally
\* whether its body failed or not, and processQueue's `await task()` goes on
TaskEnds(loop, failed) == [loop EXCEPT !.pc = "awaitTask"]

\* one round of `while (this.renderQueue.length > 0)` of the loop l, up to its
\* first await: the task is taken from the queue and called; the task calls
\* initialize, which runs to its end, and awaits it.  With the queue empty
\* the loop ends: this.isProcessing = false.
WhileLoop(st, l, ps, throws) ==
    IF Len(st.renderQueue) > 0
    THEN LET sh == shift(st.renderQueue)
             ini == initialize(st.isInitialized, ps[sh.task].themeVars, throws)
         IN  [st EXCEPT !.renderQueue = sh.rest,
                        !.isInitialized = ini.isInitialized,
                        !.initialized = IF ini.called /\ ~ini.threw
                                        THEN Append(@, [req |-> sh.task,
                                                        themeVariables |-> ini.themeVariables])
                                        ELSE @,
                        !.loops[l] = [pc |-> "awaitInit", task |-> sh.task,
                                      threw |-> ini.threw, chartId |-> <<>>]]
    ELSE [st EXCEPT !.isProcessing = FALSE,
                    !.loops = SubSeq(@, 1, l - 1) \o SubSeq(@, l + 1, Len(@))]

\* faulty variant: the flag is not looked at
processQueueReturnsOnEmpty(processing, q) == Len(q) = 0

\* if (this.isProcessing || this.renderQueue.length === 0) return
processQueueReturns(processing, q) == processing \/ Len(q) = 0

\* processQueue(), up to its first await
processQueue(st, ps, throws) ==
    IF processQueueReturns(st.isProcessing, st.renderQueue)
    THEN st
    ELSE WhileLoop([st EXCEPT !.isProcessing = TRUE,
                              !.loops = Append(@, [pc |-> "while", task |-> 0,
                                                   threw |-> FALSE, chartId |-> <<>>])],
                   Len(st.loops) + 1, ps, throws)

\* the manager's fields that processQueue works on
Manager ==
    [renderQueue |-> renderQueue, isProcessing |-> isProcessing,
     isInitialized |-> isInitialized, loops |-> loops, initialized |-> history.initialized]

\* ------------------------------------------------------------------ the render manager: steps
\* render(id, code, themeVars), up to the return of its promise
Render(id, code, themeVars, throws) ==
    /\ Len(promises) < MaxRenders
    /\ LET key == cacheKey(id, code, themeVars)
           req == Len(promises) + 1
           promise == [id |-> id, code |-> code, themeVars |-> themeVars, key |-> key,
                       state |-> "pending", value |-> NoValue, settles |-> 0,
                       queued |-> FALSE, renders |-> 0]
       IN  IF CacheHas(cache, key)
           THEN /\ promises' = Append(promises, [promise EXCEPT !.state = "fulfilled",
                                                                !.value = CacheGet(cache, key)])
                /\ UNCHANGED <<cache, isInitialized, renderQueue, isProcessing, loops, history>>
           ELSE LET ps == Append(promises, [promise EXCEPT !.queued = TRUE])
                    st == processQueue([Manager EXCEPT !.renderQueue = Append(@, req)],
                                       ps, throws)
                IN  /\ promises' = ps
                    /\ renderQueue' = st.renderQueue
                    /\ isProcessing' = st.isProcessing
                    /\ isInitialized' = st.isInitialized
                    /\ loops' = st.loops
                    /\ history' = [history EXCEPT !.initialized = st.initialized]
                    /\ UNCHANGED cache
    /\ UNCHANGED <<layoutVars, appVars, diagramVars>>

\* the task after `await this.initialize(themeVars)`: on an exception
\* reject(err); otherwise the chart id is made and mermaid.render is called
TaskAfterInitialize(l, rnd) ==
    /\ loops[l].pc = "awaitInit"
    /\ IF loops[l].threw
       THEN /\ promises' = Settle(promises, loops[l].task, "rejected", Error("initialize"))
            /\ loops' = [loops EXCEPT ![l] = TaskEnds(@, TRUE)]
       ELSE /\ loops' = [loops EXCEPT ![l].pc = "awaitRender",
                                      ![l].chartId = ChartId(promises[loops[l].task].id, rnd)]
            /\ promises' = [promises EXCEPT ![loops[l].task].renders = @ + 1]
    /\ UNCHANGED <<cache, isInitialized, renderQueue, isProcessing, history>>
    /\ UNCHANGED <<layoutVars, appVars, diagramVars>>

\* faulty variant: cache.set is reached on a failed render too (as in a finally block)
CacheAfterRenderInFinally(c, key, svg, ok) ==
    CacheSet(c, key, IF ok THEN svg ELSE Error("render"))

\* const { svg } = await mermaid.render(chartId, code); this.cache.set(cacheKey, svg):
\* a render that throws skips cache.set
CacheAfterRender(c, key, svg, ok) == IF ok THEN CacheSet(c, key, svg) ELSE c

\* the task after `await mermaid.render(chartId, code)`: cache.set and
\* resolve(svg), or on an exception reject(err)
TaskAfterRender(l, ok) ==
    /\ loops[l].pc = "awaitRender"
    /\ LET req == loops[l].task
           svg == Svg(loops[l].chartId, promises[req].code)
       IN  IF ok
           THEN /\ cache' = CacheAfterRender(cache, promises[req].key, svg, ok)
                /\ promises' = Settle(promises, req, "fulfilled", svg)
                /\ history' = [history EXCEPT !.completed =
                       {e \in @ : <<e.code, e.themeVars>>
                                      # <<promises[req].code, promises[req].themeVars>>}
                           \cup {[code |-> promises[req].code,
                                  themeVars |-> promises[req].themeVars, svg |-> svg]}]
           ELSE /\ cache' = CacheAfterRender(cache, promises[req].key, svg, ok)
                /\ promises' = Settle(promises, req, "rejected", Error("render"))
                /\ UNCHANGED history
    /\ loops' = [loops EXCEPT ![l] = TaskEnds(@, ~ok)]
    /\ UNCHANGED <<isInitialized, renderQueue, isProcessing>>
    /\ UNCHANGED <<layoutVars, appVars, diagramVars>>

\* processQueue after `await task()`: the next round of its loop
ProcessQueueResumes(l, throws) ==
    /\ loops[l].pc = "awaitTask"
    /\ LET st == WhileLoop(Manager, l, promises, throws)
       IN  /\ renderQueue' = st.renderQueue
           /\ isProcessing' = st.isProcessing
           /\ isInitialized' = st.isInitialized
           /\ loops' = st.loops
           /\ history' = [history EXCEPT !.initialized = st.initialized]
    /\ UNCHANGED <<cache, promises>>
    /\ UNCHANGED <<layoutVars, appVars, diagramVars>>

\* clearCache(), called with something in the cache
clearCache ==
    /\ cache # <<>>
    /\ cache' = <<>>
    /\ history' = [history EXCEPT !.completed = {}, !.cleared = TRUE]
    /\ UNCHANGED <<isInitialized, renderQueue, isProcessing, promises, loops>>
    /\ UNCHANGED <<layoutVars, appVars, diagramVars>>

RenderNext ==
    \/ \E id \in RenderIds, code \in Codes, themeVars \in ThemeVarsValues, throws \in BOOLEAN :
          Render(id, code, themeVars, throws)
    \/ \E l \in DOMAIN loops, rnd \in RandomSuffixes : TaskAfterInitialize(l, rnd)
    \/ \E l \in DOMAIN loops, ok \in BOOLEAN : TaskAfterRender(l, ok)
    \/ \E l \in DOMAIN loops, throws \in BOOLEAN : ProcessQueueResumes(l, throws)
    \/ clearCache

RenderSpec == Init /\ [][RenderNext]_vars

\* A continuation that is ready to run is run, and every call of
\* mermaid.render comes back.
RenderFairSpec ==
    /\ RenderSpec
    /\ WF_vars(\E l \in DOMAIN loops, rnd \in RandomSuffixes : TaskAfterInitialize(l, rnd))
    /\ WF_vars(\E l \in DOMAIN loops, ok \in BOOLEAN : TaskAfterRender(l, ok))
    /\ WF_vars(\E l \in DOMAIN loops, throws \in BOOLEAN : ProcessQueueResumes(l, throws))

\* ------------------------------------------------------------------ the SmartDiagram component
\* the props are set at most MaxVersions times (the mount included)
MaxVersions == 3

\* the props a parent may pass; onNodeClick is not passed (App.tsx renders
\* <SmartDiagram id code isVisible themeVars />), so it is undefined in
\* every render and never changes
DiagramProps ==
    [id : RenderIds, code : Codes \cup {""}, themeVars : {Undefined}, isVisible : BOOLEAN]

\* setError('Render failed')
RenderFailed == "Render failed"

\* what renderManager.render may bring back for an effect: the svg of the
\* chart, with the chart id made for the rendered element, or an error
RenderResult(eff, ok, rnd) ==
    IF ok THEN Svg(ChartId(eff.id, rnd), eff.code) ELSE Error("render")

\* the JSX returned: the output container is part of it when the component
\* is visible and error is null
ContainerShown(p, err) == p.isVisible /\ err = NoError

\* React's commit: a container that stays in the tree keeps its innerHTML, a
\* container that enters the tree is a new, empty div
Commit(p, err, c) ==
    IF ContainerShown(p, err)
    THEN IF c.present THEN c ELSE [present |-> TRUE, innerHTML |-> NoValue]
    ELSE [present |-> FALSE, innerHTML |-> NoValue]

\* the injection effect, which runs when svgContent (or onNodeClick) has
\* changed: if (!svgContent || !containerRef.current) return;
\* containerRef.current.innerHTML = svgContent
Inject(before, after, c) ==
    IF after = before \/ after = NoValue \/ ~c.present THEN c
    ELSE [c EXCEPT !.innerHTML = after]

\* faulty variant: the effect returns no cleanup
CleanupNothing(effs) == effs

\* return () => { isMounted = false; }, run for the previous run of the
\* effect when its dependencies change or the component is unmounted
Cleanup(effs) == [k \in DOMAIN effs |-> [effs[k] EXCEPT !.isMounted = FALSE]]

\* the render effect for props p: nothing when !isVisible || !code, else
\* let isMounted = true; executeRender() up to its await
RenderEffect(effs, p, v) ==
    IF ~p.isVisible \/ p.code = "" THEN effs
    ELSE Append(effs, [version |-> v, isMounted |-> TRUE, pc |-> "await",
                       id |-> p.id, code |-> p.code, result |-> NoValue])

\* the first render of the component with props p, and its effects
Mount(p) ==
    /\ mounted = "no"
    /\ mounted' = "yes"
    /\ props' = p
    /\ version' = 1
    /\ effects' = RenderEffect(effects, p, 1)
    /\ isLoading' = (Len(effects') > Len(effects))
    /\ container' = Commit(p, error, container)
    /\ UNCHANGED <<svgContent, error>>
    /\ UNCHANGED <<layoutVars, renderVars, appVars>>

\* the parent renders the component with other props: the cleanup of the
\* previous run of the render effect, the new run, the commit; svgContent
\* has not changed, so the injection effect does not run
SetProps(p) ==
    /\ mounted = "yes"
    /\ p # props
    /\ version < MaxVersions
    /\ props' = p
    /\ version' = version + 1
    /\ effects' = RenderEffect(Cleanup(effects), p, version + 1)
    /\ isLoading' = (isLoading \/ Len(effects') > Len(effects))
    /\ container' = Commit(p, error, container)
    /\ UNCHANGED <<mounted, svgContent, error>>
    /\ UNCHANGED <<layoutVars, renderVars, appVars>>

\* renderManager.render comes back to run k of the effect: the rest of
\* executeRender, then the render and the commit its state updates cause,
\* and the injection effect when svgContent has changed
RenderReturns(k, ok, rnd) ==
    /\ effects[k].pc = "await"
    /\ LET result == RenderResult(effects[k], ok, rnd)
       IN  /\ effects' = [effects EXCEPT ![k].pc = "done", ![k].result = result]
           /\ IF effects[k].isMounted
              THEN /\ svgContent' = IF ok THEN result ELSE svgContent
                   /\ error' = IF ok THEN NoError ELSE RenderFailed
                   /\ isLoading' = FALSE
              ELSE UNCHANGED <<svgContent, error, isLoading>>
    /\ container' = Inject(svgContent, svgContent', Commit(props, error', container))
    /\ UNCHANGED <<mounted, props, version>>
    /\ UNCHANGED <<layoutVars, renderVars, appVars>>

\* the component leaves the tree
Unmount ==
    /\ mounted = "yes"
    /\ mounted' = "gone"
    /\ effects' = Cleanup(effects)
    /\ container' = [present |-> FALSE, innerHTML |-> NoValue]
    /\ UNCHANGED <<props, version, svgContent, error, isLoading>>
    /\ UNCHANGED <<layoutVars, renderVars, appVars>>

DiagramNext ==
    \/ \E p \in DiagramProps : Mount(p)
    \/ \E p \in DiagramProps : SetProps(p)
    \/ \E k \in DOMAIN effects, ok \in BOOLEAN, rnd \in RandomSuffixes : RenderReturns(k, ok, rnd)
    \/ Unmount

DiagramSpec == Init /\ [][DiagramNext]_vars

\* ------------------------------------------------------------------ the application: handlers
\* stopGlobalAI(): nothing happens when no controller is held
stopGlobalAI ==
    IF globalAbortControllerRef # 0
    THEN /\ requests' = [requests EXCEPT ![globalAbortControllerRef].aborted = TRUE]
         /\ globalAbortControllerRef' = 0
         /\ appProcessing' = FALSE
         /\ messages' = addMessage(messages, "assistant", StoppedText, "text", <<>>)
    ELSE UNCHANGED <<requests, globalAbortControllerRef, appProcessing, messages>>

\* handleCommand(input) for an input that is no command: startCollaborativeWorkflow(input),
\* up to the await of classifyContentAgent
StartCollaborativeWorkflow ==
    /\ IF appProcessing
       THEN stopGlobalAI
       ELSE /\ Len(requests) < MaxRequests
            /\ appProcessing' = TRUE
            /\ messages' = addMessage(messages, "user", UserInput, "text", <<>>)
            /\ requests' = Append(requests, Request("classify", <<>>, elements, connections))
            /\ globalAbortControllerRef' = Len(requests) + 1
    /\ UNCHANGED <<elements, connections, uuids, appHistory, future>>
    /\ UNCHANGED appFrame

\* classifyContentAgent comes back to request r: with rawPlan when ok, with
\* an exception otherwise; then the finally block
ClassifyReturns(r, ok, rawPlan) ==
    /\ Awaiting(r, "classify")
    /\ IF ok /\ ~requests[r].aborted
       THEN /\ uuids + Len(rawPlan) <= Len(NodeIds)
            /\ messages' = addMessage(messages, "assistant", PlanText, "plan", PlanNodes(rawPlan, uuids))
            /\ uuids' = uuids + Len(rawPlan)
       ELSE /\ messages' = IF ~ok /\ ~requests[r].aborted
                           THEN addMessage(messages, "assistant", PlanFailedText, "text", <<>>)
                           ELSE messages
            /\ UNCHANGED uuids
    /\ appProcessing' = FALSE
    /\ globalAbortControllerRef' = 0
    /\ requests' = [requests EXCEPT ![r].pc = "returned", ![r].failed = ~ok]
    /\ UNCHANGED <<elements, connections, appHistory, future>>
    /\ UNCHANGED appFrame

\* the button under plan message m: executeGeneration(msg.plan, ...), up to
\* the first await of generateDiagramAgent; with nothing selected the loop
\* is skipped and the handler runs to its end
ExecuteGeneration(m) ==
    /\ m \in DOMAIN messages
    /\ messages[m].type = "plan"
    /\ Len(requests) < MaxRequests
    /\ appHistory' = pushToHistory(appHistory, elements, connections)
    /\ future' = <<>>
    /\ LET selectedNodes == SelectedNodes(messages[m].plan)
           req == Request("generate", selectedNodes, elements, connections)
       IN  IF selectedNodes = <<>>
           THEN /\ requests' = Append(requests, [req EXCEPT !.pc = "returned"])
                /\ messages' = addMessage(messages, "assistant", DeployedText, "text", <<>>)
                /\ appProcessing' = FALSE
                /\ globalAbortControllerRef' = 0
           ELSE /\ requests' = Append(requests, req)
                /\ appProcessing' = TRUE
                /\ globalAbortControllerRef' = Len(requests) + 1
                /\ UNCHANGED messages
    /\ UNCHANGED <<elements, connections, uuids>>
    /\ UNCHANGED appFrame

\* generateDiagramAgent comes back to request r for the node it was drawing
GenerateReturns(r, ok) ==
    /\ Awaiting(r, "generate")
    /\ LET req == requests[r]
           newElements == Append(req.newElements,
                                 GeneratedElement(req.nodes[req.next], Len(req.newElements)))
       IN  IF ok /\ req.next < Len(req.nodes) /\ ~req.aborted
           THEN \* the next node: not aborted, so the next call goes out
                /\ requests' = [requests EXCEPT ![r].next = req.next + 1,
                                                ![r].newElements = newElements]
                /\ UNCHANGED <<elements, messages, appProcessing, globalAbortControllerRef>>
           ELSE /\ IF ok /\ ~req.aborted
                   THEN /\ elements' = elements \o newElements
                        /\ messages' = addMessage(messages, "assistant", DeployedText, "text", <<>>)
                   ELSE /\ messages' = IF ~ok /\ ~req.aborted
                                       THEN addMessage(messages, "assistant", GenerationFailedText,
                                                       "text", <<>>)
                                       ELSE messages
                        /\ UNCHANGED elements
                /\ appProcessing' = FALSE
                /\ globalAbortControllerRef' = 0
                /\ requests' = [requests EXCEPT ![r].pc = "returned", ![r].failed = ~ok,
                                                ![r].newElements = IF ok THEN newElements
                                                                   ELSE req.newElements]
    /\ UNCHANGED <<connections, uuids, appHistory, future>>
    /\ UNCHANGED appFrame

\* handleCommand('/review'), up to the await of analyzeWorkspace
ReviewCommand ==
    /\ Len(requests) < MaxRequests
    /\ appProcessing' = TRUE
    /\ requests' = Append(requests, Request("review", <<>>, elements, connections))
    /\ UNCHANGED <<elements, connections, globalAbortControllerRef, messages, uuids, appHistory, future>>
    /\ UNCHANGED appFrame

\* analyzeWorkspace comes back: the report is posted, or the exception
\* leaves handleCommand (the case has no try)
ReviewReturns(r, ok) ==
    /\ Awaiting(r, "review")
    /\ IF ok
       THEN /\ messages' = addMessage(messages, "assistant", ReportText, "text", <<>>)
            /\ appProcessing' = FALSE
            /\ requests' = [requests EXCEPT ![r].pc = "returned", ![r].failed = ~ok]
       ELSE /\ requests' = [requests EXCEPT ![r].pc = "rejected", ![r].failed = TRUE]
            /\ UNCHANGED <<messages, appProcessing>>
    /\ UNCHANGED <<elements, connections, globalAbortControllerRef, uuids, appHistory, future>>
    /\ UNCHANGED appFrame

\* onFileChange with a file, and reader.onload up to the await of visionToDiagram
OnFileChange ==
    /\ Len(requests) < MaxRequests
    /\ appProcessing' = TRUE
    /\ requests' = Append(requests, Request("vision", <<>>, elements, connections))
    /\ UNCHANGED <<elements, connections, globalAbortControllerRef, messages, uuids, appHistory, future>>
    /\ UNCHANGED appFrame

\* visionToDiagram comes back; pushToHistory is the one of the render
\* onFileChange was created in, with that render's elements and connections
VisionReturns(r, ok) ==
    /\ Awaiting(r, "vision")
    /\ IF ok
       THEN /\ uuids < Len(NodeIds)
            /\ appHistory' = pushToHistory(appHistory, requests[r].seen.elements,
                                           requests[r].seen.connections)
            /\ future' = <<>>
            /\ elements' = Append(elements, [id |-> randomUUID(uuids + 1), parentId |-> NoParent,
                                             x |-> NOTE_X, y |-> NOTE_Y])
            /\ uuids' = uuids + 1
            /\ messages' = addMessage(messages, "assistant", VisionText, "text", <<>>)
       ELSE /\ messages' = addMessage(messages, "assistant", VisionFailedText, "text", <<>>)
            /\ UNCHANGED <<appHistory, future, elements, uuids>>
    /\ appProcessing' = FALSE
    /\ requests' = [requests EXCEPT ![r].pc = "returned", ![r].failed = ~ok]
    /\ UNCHANGED <<connections, globalAbortControllerRef>>
    /\ UNCHANGED appFrame

\* handleCommand('/note')
NoteCommand ==
    /\ Len(messages) < MaxMessages
    /\ uuids < Len(NodeIds)
    /\ appHistory' = pushToHistory(appHistory, elements, connections)
    /\ future' = <<>>
    /\ elements' = Append(elements, [id |-> randomUUID(uuids + 1), parentId |-> NoParent,
                                     x |-> NOTE_X, y |-> NOTE_Y])
    /\ uuids' = uuids + 1
    /\ messages' = addMessage(messages, "assistant", NoteText, "text", <<>>)
    /\ UNCHANGED <<connections, appProcessing, globalAbortControllerRef, requests>>
    /\ UNCHANGED appFrame

\* handleCommand('/clear'), confirmed
ClearCommand ==
    /\ Posted(ResetText) < MaxClears
    /\ appHistory' = pushToHistory(appHistory, elements, connections)
    /\ future' = <<>>
    /\ elements' = <<>>
    /\ connections' = <<>>
    /\ messages' = addMessage(messages, "assistant", ResetText, "text", <<>>)
    /\ UNCHANGED <<appProcessing, globalAbortControllerRef, requests, uuids>>
    /\ UNCHANGED appFrame

\* the delete button of card i: pushToHistory(); setElements(prev => prev.filter(...))
DeleteElement(i) ==
    /\ i \in DOMAIN elements
    /\ appHistory' = pushToHistory(appHistory, elements, connections)
    /\ future' = <<>>
    /\ elements' = WithoutId(elements, elements[i].id)
    /\ UNCHANGED <<connections, appProcessing, globalAbortControllerRef, messages, requests, uuids>>
    /\ UNCHANGED appFrame

\* what undo and redo read and write
Canvas == [elements |-> elements, connections |-> connections,
           history |-> appHistory, future |-> future]

\* the body of undo() behind its guard: prev = history[history.length - 1];
\* setFuture(f => [{elements, connections}, ...f]); setHistory(h => h.slice(0, -1));
\* setElements(prev.elements); setConnections(prev.connections)
Undone(c) ==
    [elements |-> c.history[Len(c.history)].elements,
     connections |-> c.history[Len(c.history)].connections,
     history |-> SubSeq(c.history, 1, Len(c.history) - 1),
     future |-> <<[elements |-> c.elements, connections |-> c.connections]>> \o c.future]

\* the body of redo() behind its guard: next = future[0];
\* setHistory(h => [...h, {elements, connections}]); setFuture(f => f.slice(1));
\* setElements(next.elements); setConnections(next.connections)
Redone(c) ==
    [elements |-> c.future[1].elements,
     connections |-> c.future[1].connections,
     history |-> Append(c.history, [elements |-> c.elements, connections |-> c.connections]),
     future |-> Tail(c.future)]

\* undo(): Ctrl+Z or the button
undo ==
    /\ ~(Len(appHistory) = 0)
    /\ elements' = Undone(Canvas).elements
    /\ connections' = Undone(Canvas).connections
    /\ appHistory' = Undone(Canvas).history
    /\ future' = Undone(Canvas).future
    /\ UNCHANGED <<appProcessing, globalAbortControllerRef, messages, requests, uuids>>
    /\ UNCHANGED appFrame

\* redo(): Ctrl+Y or the button
redo ==
    /\ ~(Len(future) = 0)
    /\ elements' = Redone(Canvas).elements
    /\ connections' = Redone(Canvas).connections
    /\ appHistory' = Redone(Canvas).history
    /\ future' = Redone(Canvas).future
    /\ UNCHANGED <<appProcessing, globalAbortControllerRef, messages, requests, uuids>>
    /\ UNCHANGED appFrame

\* the AI workflows (planning, plan execution, review, image import), with
\* deleting, undo and redo in between
AppNext ==
    \/ StartCollaborativeWorkflow
    \/ \E r \in DOMAIN requests, ok \in BOOLEAN, rawPlan \in RawPlans : ClassifyReturns(r, ok, rawPlan)
    \/ \E m \in DOMAIN messages : ExecuteGeneration(m)
    \/ \E r \in DOMAIN requests, ok \in BOOLEAN : GenerateReturns(r, ok)
    \/ ReviewCommand
    \/ \E r \in DOMAIN requests, ok \in BOOLEAN : ReviewReturns(r, ok)
    \/ OnFileChange
    \/ \E r \in DOMAIN requests, ok \in BOOLEAN : VisionReturns(r, ok)
    \/ \E i \in DOMAIN elements : DeleteElement(i)
    \/ undo
    \/ redo

AppSpec == Init /\ [][AppNext]_vars

\* a long session of editing by hand
EditNext ==
    \/ NoteCommand
    \/ ClearCommand
    \/ \E i \in DOMAIN elements : DeleteElement(i)
    \/ undo
    \/ redo

EditSpec == Init /\ [][EditNext]_vars

\* ================================================================== properties
Done == pc = "done"

\* the connections whose two endpoints are elements
ValidConns ==
    {i \in DOMAIN connections :
        connections[i].fromId \in ElementIds /\ connections[i].toId \in ElementIds}

DanglingConns == DOMAIN connections \ ValidConns

SelfConns == {i \in DOMAIN connections : connections[i].fromId = connections[i].toId}

\* in-degree over the valid connections (a connection counts once per occurrence)
InDegreeOf(id) == Cardinality({i \in ValidConns : connections[i].toId = id})

PureRootIds ==
    {elements[i].id : i \in {j \in DOMAIN elements :
        elements[j].parentId = NoParent /\ InDegreeOf(elements[j].id) = 0}}

\* the roots the specification describes
RootIds ==
    IF PureRootIds = {} /\ elements # <<>> THEN {elements[1].id} ELSE PureRootIds

Successors(S) == {connections[i].toId : i \in {j \in ValidConns : connections[j].fromId \in S}}

\* the ids at most k valid connections away from a root
RECURSIVE Within(_)
Within(k) == IF k = 0 THEN RootIds ELSE Within(k - 1) \cup Successors(Within(k - 1))

ReachableIds == Within(Len(elements))

\* the multi-source breadth-first distance of a reachable id
Distance(id) == CHOOSE k \in 0..Len(elements) :
                    id \in Within(k) /\ \A j \in 0..(k - 1) : id \notin Within(j)

RankOf(id) == Get(levels, id)
PositionOf(id) == newPositions[CHOOSE i \in DOMAIN newPositions : newPositions[i].id = id]
ResultIds == {newPositions[i].id : i \in DOMAIN newPositions}

\* C1: calculateHierarchicalLayout is total: for every element sequence with
\* distinct ids (the empty one included) and every connection sequence
\* (self-edges and dangling edges included) the result holds exactly one
\* entry for every element id and no entry for any other id.
C1_Totality ==
    Done => /\ ResultIds = ElementIds
            /\ Len(newPositions) = Len(elements)
            /\ \A i, j \in DOMAIN newPositions :
                   newPositions[i].id = newPositions[j].id => i = j

\* a layout of several elements with a self-edge and a dangling edge
C1_Witness ==
    /\ Done
    /\ Len(elements) >= 2
    /\ SelfConns # {}
    /\ DanglingConns # {}
    /\ Len(newPositions) = Len(elements)

\* the layout of the empty canvas
C1_WitnessEmpty == Done /\ elements = <<>> /\ connections # <<>> /\ newPositions = <<>>

\* C2: every element reachable from a root along valid connections has the
\* rank of its multi-source breadth-first distance: roots have rank 0, and
\* a later connection into a visited element does not change its rank.
C2_RankIsBfsDistance ==
    Done => \A id \in ReachableIds : Has(levels, id) /\ RankOf(id) = Distance(id)

\* a reachable element at distance >= 1 and a connection into an element
\* that was visited before the connection's source was expanded
C2_Witness ==
    /\ Done
    /\ \E id \in ReachableIds : Distance(id) >= 1 /\ RankOf(id) = Distance(id)
    /\ \E i \in ValidConns :
          /\ connections[i].fromId \in ReachableIds
          /\ connections[i].fromId # connections[i].toId
          /\ Distance(connections[i].toId) <= Distance(connections[i].fromId)

\* C3: the traversal roots are exactly the elements with no parentId and
\* in-degree zero over the valid connections; when there is none, the first
\* element is the only root (the cycle u1->u2, u2->u1 gives u1 rank 0 and
\* u2 rank 1).
C3_Roots ==
    (Done /\ elements # <<>>) =>
        /\ {roots[i].id : i \in DOMAIN roots} = RootIds
        /\ \A i, j \in DOMAIN roots : roots[i].id = roots[j].id => i = j
        /\ PureRootIds = {} => roots = <<elements[1]>>
        /\ ( /\ [i \in DOMAIN elements |-> elements[i].id] = <<NodeIds[1], NodeIds[2]>>
             /\ connections = << [fromId |-> NodeIds[1], toId |-> NodeIds[2]],
                                 [fromId |-> NodeIds[2], toId |-> NodeIds[1]] >> )
           => RankOf(NodeIds[1]) = 0 /\ RankOf(NodeIds[2]) = 1

\* the fallback root: no element qualifies and the first one has a parentId
C3_Witness ==
    /\ Done
    /\ Len(elements) >= 2
    /\ PureRootIds = {}
    /\ elements[1].parentId # NoParent
    /\ \E i \in DOMAIN elements : elements[i].parentId = NoParent
    /\ roots = <<elements[1]>>

\* C4: every element the traversal does not reach has rank 0, and every
\* element has exactly one rank.
C4_UnreachedRankZero ==
    Done => /\ \A id \in ElementIds \ ReachableIds : Has(levels, id) /\ RankOf(id) = 0
            /\ \A id \in ElementIds :
                   Cardinality({i \in DOMAIN levels : levels[i].key = id}) = 1
            /\ Len(levels) = Len(elements)

\* a two-element cycle no root leads to, beside a root
C4_Witness ==
    /\ Done
    /\ \E a, b \in ElementIds \ ReachableIds :
          /\ a # b
          /\ \E i, j \in ValidConns :
                /\ connections[i].fromId = a /\ connections[i].toId = b
                /\ connections[j].fromId = b /\ connections[j].toId = a
          /\ RankOf(a) = 0 /\ RankOf(b) = 0
    /\ PureRootIds # {}

\* the connections without the self-edges / without the dangling edges
WithoutSelfEdges(conns) == SelectSeq(conns, LAMBDA c : c.fromId # c.toId)
WithoutDanglingEdges(conns) ==
    SelectSeq(conns, LAMBDA c : c.fromId \in ElementIds /\ c.toId \in ElementIds)

\* C5: self-edges are ignored: the result equals the result computed after
\* every connection from an element to itself is removed.
C5_SelfEdgesIgnored ==
    Done => newPositions = calculateHierarchicalLayout(elements, WithoutSelfEdges(connections))

\* C6: dangling edges are ignored: the result (and the roots and ranks behind
\* it) equals the one computed after every connection with an endpoint that
\* is no element is removed.
C6_DanglingEdgesIgnored ==
    Done => [roots |-> roots, queue |-> queue, head |-> head, visited |-> visited,
             levels |-> levels, newPositions |-> newPositions]
                = LayoutLocals(elements, WithoutDanglingEdges(connections))

\* a dangling connection leaving an element, one entering an element, and a valid one
C6_Witness ==
    /\ Done
    /\ ValidConns # {}
    /\ \E i \in DanglingConns : connections[i].fromId \in ElementIds
    /\ \E i \in DanglingConns : connections[i].toId \in ElementIds
    /\ ResultIds = ElementIds

\* the ranks in use, the elements of a rank, and the y-coordinates of a rank's column
Ranks == {levels[i].value : i \in DOMAIN levels}
Column(r) == {id \in ElementIds : RankOf(id) = r}
ColumnYs(r) == {PositionOf(id).y : id \in Column(r)}

\* the ids of a rank in the order in which they received the rank
ColumnSeq(r) ==
    LET es == SelectSeq(levels, LAMBDA e : e.value = r)
    IN  [i \in DOMAIN es |-> es[i].key]

\* C7 as stated: the y-coordinates of every rank column are symmetric about
\* 0: a single element is at y = 0, two elements are at y and -y, 700 apart.
C7_YsSymmetricAboutZero ==
    Done => \A r \in Ranks :
        /\ \A y \in ColumnYs(r) : (0 - y) \in ColumnYs(r)
        /\ Cardinality(Column(r)) = 1 => ColumnYs(r) = {0}
        /\ Cardinality(Column(r)) = 2 => ColumnYs(r) = {0 - 350, 350}

\* C7, amended: the cards of every rank column, each CARD_HEIGHT = 600 high,
\* cover a span that is symmetric about 0: with an element at y the column
\* has one at -(y + 600); a single element is at y = -300, two elements are
\* at y = -650 and y = 50, 700 apart.
C7_CardSpanSymmetricAboutZero ==
    Done => \A r \in Ranks :
        /\ \A y \in ColumnYs(r) : (0 - (y + 600)) \in ColumnYs(r)
        /\ Cardinality(Column(r)) = 1 => ColumnYs(r) = {0 - 300}
        /\ Cardinality(Column(r)) = 2 => ColumnYs(r) = {0 - 650, 50}

\* a column with one element next to a column with two
C7_Witness ==
    /\ Done
    /\ \E r \in Ranks : Cardinality(Column(r)) = 1 /\ ColumnYs(r) = {0 - 300}
    /\ \E r \in Ranks : Cardinality(Column(r)) = 2 /\ ColumnYs(r) = {0 - 650, 50}

\* C8: the i-th element (i from 0) of a rank holding count elements is at
\* y = -(count*600 + (count-1)*100)/2 + i*700: the first is at
\* -totalHeight/2 and the last one's y plus 600 is +totalHeight/2.
C8_ColumnYFormula ==
    Done => \A r \in Ranks :
        LET ids == ColumnSeq(r)
            count == Len(ids)
            totalHeight == count * 600 + (count - 1) * 100
        IN  /\ count = Cardinality(Column(r))
            /\ \A k \in DOMAIN ids :
                   2 * PositionOf(ids[k]).y = (0 - totalHeight) + 2 * (k - 1) * 700
            /\ 2 * PositionOf(ids[1]).y = 0 - totalHeight
            /\ 2 * (PositionOf(ids[count]).y + 600) = totalHeight

\* a column of three elements
C8_Witness ==
    /\ Done
    /\ \E r \in Ranks :
          /\ Len(ColumnSeq(r)) = 3
          /\ PositionOf(ColumnSeq(r)[1]).y = 0 - 1000
          /\ PositionOf(ColumnSeq(r)[3]).y = 400

\* C9: every element of rank r is at x = r * 950, however many elements
\* share the rank.
C9_ColumnAlignment ==
    Done => \A id \in ElementIds :
        id \in ResultIds /\ PositionOf(id).x = RankOf(id) * 950

\* two elements sharing a rank right of the roots
C9_Witness ==
    /\ Done
    /\ \E r \in Ranks :
          /\ r >= 1
          /\ Cardinality(Column(r)) = 2
          /\ \A id \in Column(r) : PositionOf(id).x = r * 950

\* C10: two distinct elements of one rank are at least 700 apart in y, and
\* no two distinct elements get the same (x, y).
C10_NoOverlap ==
    Done => \A a, b \in ElementIds :
        a # b =>
            /\ a \in ResultIds /\ b \in ResultIds
            /\ RankOf(a) = RankOf(b) =>
                   \/ PositionOf(a).y - PositionOf(b).y >= 700
                   \/ PositionOf(b).y - PositionOf(a).y >= 700
            /\ <<PositionOf(a).x, PositionOf(a).y>> # <<PositionOf(b).x, PositionOf(b).y>>

\* two columns, one of them with several elements
C10_Witness ==
    /\ Done
    /\ Cardinality(Ranks) >= 2
    /\ \E r \in Ranks : Cardinality(Column(r)) >= 2
    /\ \A a, b \in ElementIds : a # b => PositionOf(a) # PositionOf(b)

\* ------------------------------------------------------------------ C11
\* the step-by-step traversal ends with the locals the function computes
TraversalAgrees ==
    Done => [roots |-> roots, queue |-> queue, head |-> head, visited |-> visited,
             levels |-> levels, newPositions |-> newPositions]
                = LayoutLocals(elements, connections)

\* every element is queued at most once, dequeued at most once (the dequeued
\* entries are queue[1..head]) and has one level per dequeue
EachNodeOnce ==
    pc \in {"bfs", "done"} =>
        /\ \A i, j \in DOMAIN queue : queue[i].id = queue[j].id => i = j
        /\ head <= Len(queue)
        /\ {queue[i].id : i \in DOMAIN queue} = visited
        /\ visited \subseteq ElementIds
        /\ \A i \in 1..head :
               Cardinality({k \in DOMAIN levels : levels[k].key = queue[i].id}) = 1
        /\ pc = "bfs" => Len(levels) = head
        /\ Done => head = Len(queue)

\* C11: the rank traversal terminates on every input, cycles and self-edges
\* included: every element is queued and dequeued at most once and gets
\* exactly one rank assignment, and a running traversal reaches its end.
C11_TraversalTerminates == [](EachNodeOnce) /\ ((pc = "bfs") ~> Done)

\* a finished traversal of a cycle with a self-edge on a reached element
C11_Witness ==
    /\ Done
    /\ head = Len(queue)
    /\ head >= 2
    /\ \E i \in ValidConns : connections[i].fromId = connections[i].toId
                             /\ connections[i].fromId \in visited
    /\ \E i, j \in ValidConns :
          /\ connections[i].fromId # connections[i].toId
          /\ connections[i].fromId = connections[j].toId
          /\ connections[i].toId = connections[j].fromId
          /\ connections[i].fromId \in visited

\* ------------------------------------------------------------------ C13
\* the elements with their positions (the fields the layout must not read) reset
AtOrigin(els) == [i \in DOMAIN els |-> [els[i] EXCEPT !.x = 0, !.y = 0]]

\* the positions the elements carry, as result entries
CurrentPositions == [i \in DOMAIN elements |->
                        [id |-> elements[i].id, x |-> elements[i].x, y |-> elements[i].y]]

\* C13: the result does not depend on the elements' current x and y: it is
\* the result for the same elements placed elsewhere, and once the /layout
\* command has written the positions, computing the layout again from the
\* moved elements gives every element the position it already has.
C13_PositionsNotRead ==
    /\ calculateHierarchicalLayout(elements, connections)
           = calculateHierarchicalLayout(AtOrigin(elements), connections)
    /\ Done => /\ calculateHierarchicalLayout(elements, connections) = newPositions
               /\ ApplyPositions(elements, calculateHierarchicalLayout(elements, connections))
                      = elements
               /\ \A i \in DOMAIN elements :
                      \E k \in DOMAIN newPositions : newPositions[k] = CurrentPositions[i]

\* the command has moved several elements in two columns away from where they were
C13_Witness ==
    /\ Done
    /\ Len(elements) >= 3
    /\ \E i, j \in DOMAIN elements : elements[i].x # elements[j].x
    /\ \A i \in DOMAIN elements :
          /\ <<elements[i].x, elements[i].y>> # <<0, 0>>
          /\ <<elements[i].x, elements[i].y>> # <<DragPosition.x, DragPosition.y>>
          /\ elements[i].y # NEW_Y
    /\ ApplyPositions(elements, calculateHierarchicalLayout(elements, connections)) = elements

\* ------------------------------------------------------------------ C14
\* the loops that have a task running: the task awaits initialize or mermaid.render
Executing == {l \in DOMAIN loops : loops[l].pc \in {"awaitInit", "awaitRender"}}

\* the requests that were queued and are not settled
Waiting == {r \in DOMAIN promises : promises[r].queued /\ promises[r].state = "pending"}

\* C14: at any time at most one processQueue loop is active and at most one
\* task is executing; the flag is set exactly while a loop is active, and a
\* step taken while a loop is active (a render() call among them) leaves
\* exactly the loops there were, or ends the loop.
C14_OneDrainLoop ==
    /\ [](Len(loops) <= 1)
    /\ [](Cardinality(Executing) <= 1)
    /\ [](isProcessing <=> Len(loops) = 1)
    /\ [][Len(loops) = 1 => Len(loops') <= 1]_vars

\* render() has been called twice while the loop was awaiting the engine
C14_Witness ==
    /\ Len(loops) = 1
    /\ loops[1].pc = "awaitRender"
    /\ Len(renderQueue) = 2
    /\ isProcessing

\* ------------------------------------------------------------------ C15
\* the requests for which mermaid.render was called with this code under this style
EngineRenders(code, themeVars) ==
    {r \in DOMAIN promises : /\ promises[r].code = code
                             /\ promises[r].themeVars = themeVars
                             /\ promises[r].renders > 0}

\* C15: as long as no render has failed and clearCache has not been called,
\* mermaid.render has been called at most once for each (code, themeVars).
C15_OneRenderPerKey ==
    (/\ ~history.cleared
     /\ \A r \in DOMAIN promises : promises[r].state # "rejected")
        => \A code \in Codes, themeVars \in ThemeVarsValues :
               Cardinality(EngineRenders(code, themeVars)) <= 1

\* ------------------------------------------------------------------ C16
\* the requests whose task a loop has taken from the queue and not finished
InHand == {loops[l].task : l \in Executing}

\* in the queue, as a set
InQueue == {renderQueue[i] : i \in DOMAIN renderQueue}

\* a queued request that is settled was settled by one call, with an svg of its own code or
\* with the error of its own task
SettledAsItsOwn(r) ==
    LET p == promises[r]
    IN  /\ p.settles <= 1
        /\ p.state = "pending" <=> p.settles = 0
        /\ p.state = "fulfilled" =>
               /\ p.value.error = ""
               /\ p.value.code = p.code
               /\ p.renders = 1
        /\ p.state = "rejected" =>
               \/ p.value = Error("initialize") /\ p.renders = 0
               \/ p.value = Error("render") /\ p.renders = 1

\* C16: every queued request is settled in the end, by exactly one call of
\* resolve or reject, with the svg of its own code or its own error; until
\* then it is in the queue or in the hands of the loop, never both, and the
\* queue is never left non-empty with no loop active.
C16_EverySettledOnce ==
    /\ [](\A r \in DOMAIN promises : promises[r].queued => SettledAsItsOwn(r))
    /\ [](Waiting = InQueue \cup InHand /\ InQueue \cap InHand = {})
    /\ [](Len(renderQueue) > 0 => isProcessing /\ Len(loops) = 1)
    /\ \A r \in 1..MaxRenders :
          (r \in Waiting) ~> (/\ r \in DOMAIN promises
                               /\ promises[r].state # "pending"
                               /\ promises[r].settles = 1)

\* all requests were queued; they were settled while the loop went on and the
\* loop has ended
C16_Witness ==
    /\ Len(promises) = MaxRenders
    /\ \A r \in DOMAIN promises : promises[r].queued /\ promises[r].settles = 1
    /\ \E r \in DOMAIN promises : promises[r].state = "fulfilled"
    /\ \E r \in DOMAIN promises : promises[r].state = "rejected"
    /\ ~isProcessing

\* ------------------------------------------------------------------ C17
Rejected == {r \in DOMAIN promises : promises[r].state = "rejected"}

\* C17: the step in which a task fails rejects the promise of that task and
\* changes no other promise, leaves the queue as it is and leaves the loop
\* waiting to go on; a loop is always at a point from which it goes on; and
\* after a failure the loop ends with the queue empty and the flag cleared.
C17_FailureIsolated ==
    /\ [][\A r \in DOMAIN promises :
            (promises[r].state = "pending" /\ promises'[r].state = "rejected")
                => /\ \A o \in DOMAIN promises \ {r} : promises'[o] = promises[o]
                   /\ promises'[r].settles = 1
                   /\ renderQueue' = renderQueue
                   /\ isProcessing'
                   /\ Len(loops') = 1
                   /\ loops'[1].pc = "awaitTask"
                   /\ loops'[1].task = r]_vars
    /\ [](\A l \in DOMAIN loops : loops[l].pc \in {"awaitInit", "awaitRender", "awaitTask"})
    /\ (Rejected # {} /\ isProcessing) ~> (~isProcessing /\ renderQueue = <<>> /\ Waiting = {})

\* the first task failed in initialize, the second in mermaid.render, the
\* third was resolved, and the loop has ended
C17_Witness ==
    /\ Len(promises) = 3
    /\ promises[1].state = "rejected" /\ promises[1].value = Error("initialize")
    /\ promises[2].state = "rejected" /\ promises[2].value = Error("render")
    /\ promises[3].state = "fulfilled" /\ promises[3].queued
    /\ promises[3].value.code = promises[3].code
    /\ ~isProcessing
    /\ renderQueue = <<>>

\* ------------------------------------------------------------------ C18
\* C18: when mermaid.render has been called for a request, every request
\* queued before it is settled, so its own render is over; at most one
\* render is under way; and the queue holds the waiting requests in the
\* order of their calls, all of them later than the task in hand.
C18_Fifo ==
    /\ \A r2 \in DOMAIN promises :
          promises[r2].renders > 0
              => \A r1 \in 1..(r2 - 1) : promises[r1].queued => promises[r1].state # "pending"
    /\ Cardinality({r \in DOMAIN promises :
                       promises[r].renders > 0 /\ promises[r].state = "pending"}) <= 1
    /\ \A i, j \in DOMAIN renderQueue : i < j => renderQueue[i] < renderQueue[j]
    /\ \A l \in Executing, i \in DOMAIN renderQueue : loops[l].task < renderQueue[i]

\* three requests were queued while the first was under way, and the engine
\* has rendered the first two while the third waits its turn
C18_Witness ==
    /\ Len(promises) = 3
    /\ \A r \in DOMAIN promises : promises[r].queued
    /\ promises[1].state = "fulfilled" /\ promises[1].renders = 1
    /\ promises[2].state = "fulfilled" /\ promises[2].renders = 1
    /\ promises[3].state = "pending" /\ promises[3].renders = 0
    /\ renderQueue = <<3>>

\* ------------------------------------------------------------------ C19
\* C19: a render() call for a (code, themeVars) whose render has completed
\* since the last clearCache() returns a promise fulfilled with the svg of
\* that render, puts nothing into the queue, starts no loop and changes no
\* other promise; and a request answered from the cache never gets a
\* mermaid.render call.
C19_CacheHit ==
    /\ [][\A e \in history.completed :
            (/\ Len(promises') = Len(promises) + 1
             /\ promises'[Len(promises')].code = e.code
             /\ promises'[Len(promises')].themeVars = e.themeVars)
                => /\ promises'[Len(promises')].state = "fulfilled"
                   /\ promises'[Len(promises')].value = e.svg
                   /\ ~promises'[Len(promises')].queued
                   /\ SubSeq(promises', 1, Len(promises)) = promises
                   /\ renderQueue' = renderQueue
                   /\ loops' = loops
                   /\ isInitialized' = isInitialized
                   /\ history' = history]_vars
    /\ [](\A r \in DOMAIN promises :
            ~promises[r].queued => /\ promises[r].renders = 0
                                   /\ promises[r].state = "fulfilled"
                                   /\ r \notin InQueue \cup InHand)

\* the second call, for another element, got the svg made for the first
C19_Witness ==
    /\ Len(promises) >= 2
    /\ promises[1].queued /\ promises[1].state = "fulfilled"
    /\ ~promises[2].queued
    /\ promises[2].id # promises[1].id
    /\ promises[2].code = promises[1].code
    /\ promises[2].themeVars = promises[1].themeVars
    /\ promises[2].value = promises[1].value
    /\ promises[2].renders = 0
    /\ ~history.cleared

\* ------------------------------------------------------------------ C20
\* the first task a loop took from the queue
FirstTask == CHOOSE r \in DOMAIN promises :
                 /\ promises[r].queued
                 /\ \A o \in 1..(r - 1) : ~promises[o].queued

\* C20 as stated: mermaid.initialize succeeds at most once, before every
\* call of mermaid.render, and with the theme of the first task executed.
C20_InitializedByFirstTask ==
    /\ Len(history.initialized) <= 1
    /\ \A r \in DOMAIN promises : promises[r].renders > 0 => Len(history.initialized) = 1
    /\ Len(history.initialized) = 1
          => history.initialized[1].themeVariables
                 = ThemeVariables(promises[FirstTask].themeVars)

\* C20: mermaid.initialize succeeds at most once, before every call of
\* mermaid.render, and with the theme of the first task whose call of it
\* does not throw: the tasks before that one were rejected by initialize.
\* Once it has succeeded no step initializes again.
C20_InitializedOnce ==
    /\ [](Len(history.initialized) <= 1)
    /\ [](isInitialized <=> Len(history.initialized) = 1)
    /\ [](\A r \in DOMAIN promises :
            promises[r].renders > 0
                => Len(history.initialized) = 1 /\ history.initialized[1].req <= r)
    /\ [](Len(history.initialized) = 1
            => LET first == history.initialized[1]
               IN  /\ promises[first.req].queued
                   /\ first.themeVariables = ThemeVariables(promises[first.req].themeVars)
                   /\ \A r \in 1..(first.req - 1) :
                         /\ promises[r].state = "rejected"
                         /\ promises[r].value = Error("initialize"))
    /\ [][Len(history.initialized) = 1 => history.initialized' = history.initialized]_vars

\* initialize threw for the first task and succeeded for the second, with the
\* second's theme; a third task with another theme was rendered under it
C20_Witness ==
    /\ Len(promises) = 3
    /\ Len(history.initialized) = 1
    /\ history.initialized[1].req = 2
    /\ promises[1].value = Error("initialize")
    /\ promises[1].themeVars # promises[2].themeVars
    /\ promises[3].themeVars # promises[2].themeVars
    /\ promises[3].queued /\ promises[3].state = "fulfilled"
    /\ history.initialized[1].themeVariables = ThemeVariables(promises[2].themeVars)

\* ------------------------------------------------------------------ C21
\* request r takes a step: its awaited call comes back
Completes(r) == requests[r].pc = "await" /\ requests'[r] # requests[r]

\* C21: once a global AI request was aborted by stopGlobalAI, the completion
\* of that request, successful or failed, changes no application state: no
\* element and no message is added, isProcessing keeps its value, and the
\* abort controller held for a request started after the abort is neither
\* cleared nor replaced.
C21_AbortStopsStateChanges ==
    [][\A r \in DOMAIN requests :
          requests[r].aborted /\ Completes(r)
              => UNCHANGED <<elements, messages, appProcessing, globalAbortControllerRef>>]_vars

\* ------------------------------------------------------------------ C22
\* C22: when the AI service call of a command fails (/review, free-text
\* planning, plan execution, image import; the request not aborted), the
\* exception stays inside the handler, a message is posted and isProcessing
\* is false again.
C22_FailuresRecovered ==
    [][\A r \in DOMAIN requests :
          requests[r].pc = "await" /\ requests'[r].failed /\ ~requests[r].aborted
              => /\ requests'[r].pc = "returned"
                 /\ Len(messages') = Len(messages) + 1
                 /\ appProcessing' = FALSE]_vars

\* ------------------------------------------------------------------ C23
\* C23: no two elements on the canvas have the same id, whatever the user
\* did: planning, executing a plan, executing the same plan message again,
\* importing an image, deleting, undo, redo.
C23_UniqueIds ==
    \A i \in DOMAIN elements, j \in DOMAIN elements :
        elements[i].id = elements[j].id => i = j

\* ------------------------------------------------------------------ C24
\* the element with its position taken away
Unplaced(el) == [el EXCEPT !.x = 0, !.y = 0]

\* C24: the layout changes positions only.  A /layout command (the only
\* step of the canvas that posts a message) leaves the connections, the
\* number and the order of the elements and every field of an element other
\* than x and y as they were, and the snapshot it takes holds the elements
\* and connections calculateHierarchicalLayout was given, unmodified.
C24_PositionsOnly ==
    [][messages' # messages =>
          /\ connections' = connections
          /\ Len(elements') = Len(elements)
          /\ \A i \in DOMAIN elements : Unplaced(elements'[i]) = Unplaced(elements[i])
          /\ appHistory'[Len(appHistory')] = [elements |-> elements, connections |-> connections]]_vars

\* /layout has moved an element of a canvas whose layout order is not the
\* creation order
C24_Witness ==
    /\ Done
    /\ Len(messages) > 0
    /\ Len(elements) >= 2
    /\ Len(connections) >= 1
    /\ appHistory[Len(appHistory)].elements # elements
    /\ \E i \in DOMAIN newPositions : newPositions[i].id # elements[i].id

\* ------------------------------------------------------------------ C25
Min(S) == CHOOSE x \in S : \A y \in S : x <= y

\* where id stands in a queue, and the level it was queued with
QueueIndexIn(q, id) == CHOOSE i \in DOMAIN q : q[i].id = id
QueueLevelIn(q, id) == q[QueueIndexIn(q, id)].level

\* when the traversal has ended, every edge a -> b between elements with a
\* reached has rank(b) <= rank(a) + 1, and the ranks of the reached
\* elements are the levels they were queued with
EdgeRanksBounded ==
    Done =>
        /\ \A i \in DOMAIN queue : RankOf(queue[i].id) = queue[i].level
        /\ \A i \in ValidConns :
               connections[i].fromId \in visited
                   => /\ connections[i].toId \in visited
                      /\ RankOf(connections[i].toId) <= RankOf(connections[i].fromId) + 1

\* the expansion of a = queue[head + 1]: a child that is visited already was
\* queued with a level of at most level(a) + 1 and keeps it; a child that
\* is not is queued with level(a) + 1
ExpansionRanks ==
    TraversalStepEnabled =>
        LET a == queue[head + 1]
        IN  \A i \in ValidConns :
                connections[i].fromId = a.id =>
                    LET b == connections[i].toId
                    IN  IF b \in visited
                        THEN /\ QueueLevelIn(queue, b) <= a.level + 1
                             /\ QueueLevelIn(queue', b) = QueueLevelIn(queue, b)
                        ELSE /\ b \in visited'
                             /\ QueueLevelIn(queue', b) = a.level + 1

\* C25: for every edge a -> b whose endpoints are elements and where a is
\* reached by the traversal, rank(b) <= rank(a) + 1; rank(b) is less than
\* rank(a) + 1 only when b had been visited already, with a level of at
\* most level(a) + 1, at the moment a was expanded.
C25_EdgeRanks == [](EdgeRanksBounded) /\ [][ExpansionRanks]_vars

\* a finished traversal with an edge a -> b, a # b, where b was visited
\* before a was expanded and rank(b) < rank(a) + 1, and an edge where
\* rank(b) = rank(a) + 1
C25_Witness ==
    /\ Done
    /\ head = Len(queue)
    /\ \E i \in ValidConns :
          /\ connections[i].fromId # connections[i].toId
          /\ connections[i].fromId \in visited
          /\ RankOf(connections[i].toId) < RankOf(connections[i].fromId) + 1
    /\ \E i \in ValidConns :
          /\ connections[i].fromId \in visited
          /\ RankOf(connections[i].toId) = RankOf(connections[i].fromId) + 1

\* ------------------------------------------------------------------ C26
ElementIndex(id) == CHOOSE i \in DOMAIN elements : elements[i].id = id

\* when an element received its rank: a reached element when it was
\* dequeued, an unreached element after all of those, in input order
RankedAt(id) ==
    IF id \in visited THEN QueueIndexIn(queue, id) ELSE Len(queue) + ElementIndex(id)

\* the queue position of the element whose expansion queued the non-root b:
\* the first dequeued element with an edge to b
ParentIndex(b) ==
    Min({QueueIndexIn(queue, connections[i].fromId) :
            i \in {j \in ValidConns : connections[j].toId = b
                                      /\ connections[j].fromId \in visited}})

\* the first edge from a to b
FirstEdge(a, b) ==
    Min({i \in ValidConns : connections[i].fromId = a /\ connections[i].toId = b})

\* C26: within each rank the elements are stacked from the smallest y to
\* the largest in the order in which they received their rank: first in
\* dequeue order (the roots in input order, then the children in the order
\* of their parents and, under one parent, of their edges), then the
\* unreached elements in input order; roots and unreached elements share
\* rank 0, the roots above.
C26_StackingOrder ==
    Done /\ elements # <<>> =>
        /\ \A a \in ElementIds, b \in ElementIds :
               RankOf(a) = RankOf(b) /\ RankedAt(a) < RankedAt(b)
                   => PositionOf(a).y < PositionOf(b).y
        /\ {roots[i].id : i \in DOMAIN roots} = RootIds
        /\ \A i \in DOMAIN roots :
               /\ queue[i].id = roots[i].id
               /\ \A j \in DOMAIN roots :
                      i < j => ElementIndex(roots[i].id) < ElementIndex(roots[j].id)
        /\ \A i \in DOMAIN queue, j \in DOMAIN queue :
               Len(roots) < i /\ i < j =>
                   LET pi == ParentIndex(queue[i].id)
                       pj == ParentIndex(queue[j].id)
                   IN  \/ pi < pj
                       \/ /\ pi = pj
                          /\ FirstEdge(queue[pi].id, queue[i].id)
                                 < FirstEdge(queue[pj].id, queue[j].id)
        /\ \A id \in RootIds \cup (ElementIds \ visited) : RankOf(id) = 0
        /\ \A a \in RootIds, b \in ElementIds \ visited : PositionOf(a).y < PositionOf(b).y

\* two roots above an unreached element that was created before the second
\* root, and a child in the next column
C26_Witness ==
    /\ Done
    /\ Len(roots) = 2
    /\ \E b \in ElementIds \ visited :
          /\ ElementIndex(b) < ElementIndex(roots[2].id)
          /\ PositionOf(roots[1].id).y < PositionOf(roots[2].id).y
          /\ PositionOf(roots[2].id).y < PositionOf(b).y
    /\ \E c \in visited : RankOf(c) = 1

\* ------------------------------------------------------------------ C27
\* in this step the engine render of request r fails
RenderFails(r) ==
    /\ promises[r].state = "pending"
    /\ promises'[r].state = "rejected"
    /\ promises'[r].value = Error("render")

\* in this step render() is called
RenderCalled == Len(promises') = Len(promises) + 1

Stale(k) == mounted # "yes" \/ effects[k].version # version

\* in this step the render of run k comes back
Arrives(k) == effects[k].pc = "await" /\ effects'[k].pc = "done"

\* C28: a render result that arrives after the props (id, code, themeVars,
\* isVisible) have changed or after the component was unmounted updates
\* neither svgContent nor error nor isLoading; svgContent and error change,
\* and isLoading is reset, only when the result of the render started for
\* the current props arrives.
C28_StaleResultsIgnored ==
    /\ [][\A k \in DOMAIN effects :
            Arrives(k) /\ Stale(k) => UNCHANGED <<svgContent, error, isLoading>>]_vars
    /\ [][svgContent' # svgContent \/ error' # error \/ (isLoading /\ ~isLoading')
            => \E k \in DOMAIN effects : Arrives(k) /\ ~Stale(k)]_vars

\* the svg of the first render arrived after the props had changed and is
\* not shown; the render for the current props is still out
C28_Witness ==
    /\ mounted = "yes"
    /\ Len(effects) = 2
    /\ effects[1].pc = "done"
    /\ effects[1].result.error = ""
    /\ effects[1].result.code # ""
    /\ effects[2].pc = "await"
    /\ svgContent = NoValue
    /\ error = NoError
    /\ isLoading

\* ------------------------------------------------------------------ C29
\* the component is visible and the render started for its current props
\* has succeeded, with error cleared
LatestRenderSucceeded ==
    /\ mounted = "yes"
    /\ props.isVisible
    /\ error = NoError
    /\ effects # <<>>
    /\ effects[Len(effects)].version = version
    /\ effects[Len(effects)].pc = "done"
    /\ effects[Len(effects)].result.error = ""

CanvasAfter == [elements |-> elements', connections |-> connections',
                history |-> appHistory', future |-> future']

\* this step is an undo, a redo
UndoStep == Len(appHistory) > 0 /\ CanvasAfter = Undone(Canvas)
RedoStep == Len(future) > 0 /\ CanvasAfter = Redone(Canvas)

\* C30: from any state with a non-empty history, undo followed at once by
\* redo restores elements, connections, the history stack and the redo
\* stack to what they were before the undo; the history stack never holds
\* more than 20 snapshots; and every step that records history other than
\* undo and redo leaves the redo stack empty.
C30_UndoRedoInverse ==
    /\ [](Len(appHistory) > 0 =>
            /\ Len(Undone(Canvas).future) > 0
            /\ Redone(Undone(Canvas)) = Canvas)
    /\ [](Len(appHistory) <= HISTORY_KEEP + 1)
    /\ [][appHistory' # appHistory /\ ~UndoStep /\ ~RedoStep => future' = <<>>]_vars

\* after more than 20 recorded edits (the oldest snapshot is dropped) the
\* canvas was taken back by undo: both stacks hold snapshots, 20 together,
\* and the snapshot undo would restore differs from the canvas
C30_Witness ==
    /\ Len(messages) > HISTORY_KEEP + 1
    /\ Len(appHistory) > 0
    /\ Len(future) > 0
    /\ Len(appHistory) + Len(future) = HISTORY_KEEP + 1
    /\ appHistory[Len(appHistory)].elements # elements
    /\ future[1].elements # elements

====
